---- MODULE Spec2Model ----
(***************************************************************************)
(* Invoice bank verification service: the validation middleware            *)
(* (src/middleware/validation.js), the data-access layer                   *)
(* (src/db/database.js over src/db/schema.sql) and the routes that compose *)
(* them (src/server.js).                                                   *)
(*                                                                         *)
(* A JavaScript string is a sequence of one-character strings.  A          *)
(* JavaScript value is a record [t, s]: t is its type tag and s its        *)
(* characters when it is a string (<<>> otherwise).                        *)
(***************************************************************************)
EXTENDS Integers, Sequences, FiniteSets, TLC

\* ------------------------------------------------------------ bounds
\* Longest string enumerated exhaustively over Alphabet.
MaxLen == 3
\* Largest value the invoices id sequence hands out.
MaxId == 3
\* Largest value the verification_logs id sequence hands out.
MaxLog == 2
\* Latest reading of the database clock.
MaxClock == 2

\* ------------------------------------------------------------ JS values
Undef == [t |-> "undefined", s |-> <<>>]
Null == [t |-> "null", s |-> <<>>]
\* A non-string value the body and query parsers can produce (key[]=x).
Arr == [t |-> "array", s |-> <<>>]
Str(s) == [t |-> "string", s |-> s]

\* JavaScript truthiness: undefined, null and '' are falsy; arrays are truthy.
Truthy(v) == \/ v.t = "array"
             \/ v.t = "string" /\ v.s # <<>>

\* a || b
Or(a, b) == IF Truthy(a) THEN a ELSE b

Rep(c, n) == [i \in 1..n |-> c]

\* ------------------------------------------------------------ characters
Lower == {"a","b","c","d","e","f","g","h","i","j","k","l","m",
          "n","o","p","q","r","s","t","u","v","w","x","y","z"}
Upper == {"A","B","C","D","E","F","G","H","I","J","K","L","M",
          "N","O","P","Q","R","S","T","U","V","W","X","Y","Z"}
Digit == {"0","1","2","3","4","5","6","7","8","9"}
\* The character class of validPattern: [a-zA-Z0-9\-_]
PatternClass == Lower \cup Upper \cup Digit \cup {"-", "_"}
\* The repetition bound of validPattern: {1,255}
PatternMax == 255
\* The end index of substring(0, 255)
SubstringEnd == 255
\* Characters String.prototype.trim removes.
WhiteSpace == {" ", "\t", "\n"}

\* ------------------------------------------------------------ string methods
RECURSIVE TrimStart(_)
TrimStart(s) == IF s # <<>> /\ Head(s) \in WhiteSpace THEN TrimStart(Tail(s)) ELSE s

RECURSIVE TrimEnd(_)
TrimEnd(s) == IF s # <<>> /\ s[Len(s)] \in WhiteSpace
              THEN TrimEnd(SubSeq(s, 1, Len(s) - 1)) ELSE s

\* s.trim()
Trim(s) == TrimEnd(TrimStart(s))

IsAngle(c) == c \in {"<", ">"}

\* s.replace(/[<>]/g, '')
StripAngles(s) == SelectSeq(s, LAMBDA c : ~IsAngle(c))

\* s.substring(0, n)
Substring0(s, n) == IF Len(s) <= n THEN s ELSE SubSeq(s, 1, n)

\* /^[a-zA-Z0-9\-_]{1,255}$/.test(s)
ValidPatternTest(s) == /\ Len(s) >= 1
                       /\ Len(s) <= PatternMax
                       /\ \A i \in 1..Len(s) : s[i] \in PatternClass

\* ------------------------------------------------------------ validation.js
\* validateInvoiceNumber with a pattern that also matches the empty string.
validateInvoiceNumber_star(v) ==
    IF v.t # "string" THEN FALSE
    ELSE LET s == Trim(v.s) IN
         Len(s) <= PatternMax /\ \A i \in 1..Len(s) : s[i] \in PatternClass

validateInvoiceNumber(v) ==
    IF ~Truthy(v) \/ v.t # "string" THEN FALSE
    ELSE ValidPatternTest(Trim(v.s))

\* sanitizeInput cutting the string before it strips the brackets.
sanitizeInput_cutFirst(v) ==
    IF v.t # "string" THEN <<>>
    ELSE StripAngles(Substring0(v.s, SubstringEnd))

sanitizeInput(v) ==
    IF v.t # "string" THEN <<>>
    ELSE Substring0(StripAngles(Trim(v.s)), SubstringEnd)

\* An HTTP response: status, the error title or the view rendered, and the
\* message parts (errors.join(', ') keeps their order).
Response(status, title, message) ==
    [status |-> status, title |-> title, message |-> message]

NoResponse == Response(0, "", <<>>)

NoData == [invoice_number |-> <<>>, bank_name |-> <<>>,
           bank_account_number |-> <<>>, beneficiary_name |-> Undef]

\* What a middleware does with a request: "next" calls the downstream
\* handler, "end" sends res and stops, "throw" raises inside the middleware.
Outcome(kind, res, data) == [kind |-> kind, res |-> res, data |-> data]

\* validateInvoiceSearch handing on the raw parameter.
validateInvoiceSearch_raw(q) ==
    LET invoiceNumber == q.query_invoice IN
    IF ~Truthy(invoiceNumber)
    THEN Outcome("end", Response(400, "Invalid Request",
                                 <<"Invoice number is required">>), NoData)
    ELSE IF ~validateInvoiceNumber(invoiceNumber)
    THEN Outcome("end", Response(400, "Invalid Invoice Number",
                                 <<"Invoice number contains invalid characters">>), NoData)
    ELSE Outcome("next", NoResponse, [NoData EXCEPT !.invoice_number = invoiceNumber.s])

validateInvoiceSearch(q) ==
    LET invoiceNumber == q.query_invoice IN
    IF ~Truthy(invoiceNumber)
    THEN Outcome("end", Response(400, "Invalid Request",
                                 <<"Invoice number is required">>), NoData)
    ELSE IF ~validateInvoiceNumber(invoiceNumber)
    THEN Outcome("end", Response(400, "Invalid Invoice Number",
                                 <<"Invoice number contains invalid characters">>), NoData)
    ELSE Outcome("next", NoResponse,
                 [NoData EXCEPT !.invoice_number = sanitizeInput(invoiceNumber)])

\* v.trim() raises a TypeError when v has no trim method.
TrimThrows(v) == Truthy(v) /\ v.t # "string"

\* !v || v.trim().length === 0, for v that does not throw
RequiredMissing(v) == ~Truthy(v) \/ Len(Trim(v.s)) = 0

validateInvoiceCreation(q) ==
    LET e1 == IF ~Truthy(q.invoice_number) \/ ~validateInvoiceNumber(q.invoice_number)
              THEN <<"Invalid invoice number format">> ELSE <<>>
        e2 == IF RequiredMissing(q.bank_name)
              THEN <<"Bank name is required">> ELSE <<>>
        e3 == IF RequiredMissing(q.bank_account_number)
              THEN <<"Bank account number is required">> ELSE <<>>
        errors == e1 \o e2 \o e3
    IN
    IF TrimThrows(q.bank_name) \/ TrimThrows(q.bank_account_number)
    THEN Outcome("throw", NoResponse, NoData)
    ELSE IF Len(errors) > 0
    THEN Outcome("end", Response(400, "Validation Error", errors), NoData)
    ELSE Outcome("next", NoResponse,
                 [invoice_number |-> sanitizeInput(q.invoice_number),
                  bank_name |-> sanitizeInput(q.bank_name),
                  bank_account_number |-> sanitizeInput(q.bank_account_number),
                  beneficiary_name |-> IF Truthy(q.beneficiary_name)
                                       THEN Str(sanitizeInput(q.beneficiary_name))
                                       ELSE Null])

\* process.env.ADMIN_KEY
ADMIN_KEY == Str(<<"s", "3", "c", "r", "3", "t">>)

\* The body field read before the query parameter.
AdminKeyOf_bodyFirst(q) == Or(q.body_key, q.query_key)

\* req.query.key || req.body.key
AdminKeyOf(q) == Or(q.query_key, q.body_key)

\* requireAdminKey that only asks for some key.
requireAdminKey_anyKey(q) ==
    LET adminKey == AdminKeyOf(q) IN
    IF ~Truthy(adminKey)
    THEN Outcome("end", Response(403, "Access Denied",
                                 <<"Invalid or missing admin key">>), NoData)
    ELSE Outcome("next", NoResponse, NoData)

requireAdminKey(q) ==
    LET adminKey == AdminKeyOf(q) IN
    IF ~Truthy(adminKey) \/ adminKey # ADMIN_KEY
    THEN Outcome("end", Response(403, "Access Denied",
                                 <<"Invalid or missing admin key">>), NoData)
    ELSE Outcome("next", NoResponse, NoData)

\* ------------------------------------------------------------ state
\* Connections the server handles concurrently.
Conns == {"c1", "c2"}

VARIABLES
    invoices,           \* rows of table invoices
    invoices_id_seq,    \* next value of the SERIAL sequence of invoices.id
    verification_logs,  \* rows of table verification_logs, in insertion order
    verification_logs_id_seq,  \* next value of the SERIAL sequence of verification_logs.id
    now,                \* CURRENT_TIMESTAMP of the database
    req,                \* per connection: the request being handled
    pc,                 \* per connection: "idle", the query awaited, or "done"
    sanitized,          \* per connection: req.sanitizedInvoice / req.sanitizedData
    res,                \* per connection: the response sent
    caught,             \* per connection: the error the handler caught ("none" if none)
    queries,            \* per connection: pool.query calls issued for the request
    call                \* a direct call of a validation.js function: fn, arg, result

vars == <<invoices, invoices_id_seq, verification_logs, verification_logs_id_seq,
          now, req, pc, sanitized, res, caught, queries, call>>

store == <<invoices, invoices_id_seq, verification_logs, verification_logs_id_seq, now>>

\* parseInt of a route parameter that is not a number
NaN == -1

\* The address of the peer of the socket.
SOCKET == Str(<<"1", ".", "2", ".", "3", ".", "4">>)

Request(route, query_key, body_key, query_invoice, id, invoice_number, bank_name, bank_account_number, beneficiary_name) ==
    [route |-> route, query_key |-> query_key, body_key |-> body_key,
     query_invoice |-> query_invoice, id |-> id,
     invoice_number |-> invoice_number, bank_name |-> bank_name,
     bank_account_number |-> bank_account_number,
     beneficiary_name |-> beneficiary_name,
     forwarded |-> Undef, remoteAddress |-> SOCKET]

NoRequest == Request("", Undef, Undef, Undef, 0, Undef, Undef, Undef, Undef)

NoCall == [fn |-> "none", arg |-> Undef, valid |-> FALSE, out |-> <<>>, again |-> <<>>, error |-> "none"]

InitServer ==
    /\ invoices = {}
    /\ invoices_id_seq = 1
    /\ verification_logs = <<>>
    /\ verification_logs_id_seq = 1
    /\ now = 0
    /\ req = [r \in Conns |-> NoRequest]
    /\ pc = [r \in Conns |-> "idle"]
    /\ sanitized = [r \in Conns |-> NoData]
    /\ res = [r \in Conns |-> NoResponse]
    /\ caught = [r \in Conns |-> "none"]
    /\ queries = [r \in Conns |-> 0]

\* ------------------------------------------------------------ database.js
\* The result of one statement: the error raised ("none" if none), the rows
\* returned, and the table and sequence afterwards.
Result(error, rows, table, seq) ==
    [error |-> error, rows |-> rows, table |-> table, seq |-> seq]

Row(id, invoiceNumber, bankName, bankAccountNumber, beneficiaryName) ==
    [id |-> id, invoice_number |-> invoiceNumber, bank_name |-> bankName,
     bank_account_number |-> bankAccountNumber, beneficiary_name |-> beneficiaryName]

\* invoice_number VARCHAR(255) UNIQUE
UniqueViolation(table, id, invoiceNumber) ==
    \E row \in table : row.invoice_number = invoiceNumber /\ row.id # id

getInvoiceByNumber(table, invoiceNumber) ==
    {row \in table : row.invoice_number = invoiceNumber}

\* invoiceExists answering false whatever the table holds.
invoiceExists_never(table, invoiceNumber) == FALSE

invoiceExists(table, invoiceNumber) ==
    \E row \in table : row.invoice_number = invoiceNumber

\* createInvoice without the UNIQUE constraint on invoice_number.
createInvoice_unconstrained(table, seq, invoiceNumber, bankName, bankAccountNumber, beneficiaryName) ==
    LET row == Row(seq, invoiceNumber, bankName, bankAccountNumber, beneficiaryName) IN
    Result("none", {row}, table \cup {row}, seq + 1)

\* createInvoice as an upsert: a conflicting row is replaced.
createInvoice_upsert(table, seq, invoiceNumber, bankName, bankAccountNumber, beneficiaryName) ==
    LET row == Row(seq, invoiceNumber, bankName, bankAccountNumber, beneficiaryName)
        old == {r \in table : r.invoice_number = invoiceNumber}
    IN Result("none", {row}, (table \ old) \cup {row}, seq + 1)

\* INSERT INTO invoices ... RETURNING *; the id is drawn from the sequence
\* before the constraint is checked, and a drawn value is never given back.
createInvoice(table, seq, invoiceNumber, bankName, bankAccountNumber, beneficiaryName) ==
    LET row == Row(seq, invoiceNumber, bankName, bankAccountNumber, beneficiaryName) IN
    IF UniqueViolation(table, seq, invoiceNumber)
    THEN Result("unique_violation", {}, table, seq + 1)
    ELSE Result("none", {row}, table \cup {row}, seq + 1)

\* updateInvoice without the UNIQUE constraint on invoice_number.
updateInvoice_unconstrained(table, seq, id, invoiceNumber, bankName, bankAccountNumber, beneficiaryName) ==
    LET old == {row \in table : row.id = id}
        new == Row(id, invoiceNumber, bankName, bankAccountNumber, beneficiaryName)
    IN
    IF id = NaN THEN Result("invalid_text_representation", {}, table, seq)
    ELSE IF old = {} THEN Result("none", {}, table, seq)
    ELSE Result("none", {new}, (table \ old) \cup {new}, seq)

\* UPDATE invoices SET ... WHERE id = $1 RETURNING *
updateInvoice(table, seq, id, invoiceNumber, bankName, bankAccountNumber, beneficiaryName) ==
    LET old == {row \in table : row.id = id}
        new == Row(id, invoiceNumber, bankName, bankAccountNumber, beneficiaryName)
    IN
    IF id = NaN THEN Result("invalid_text_representation", {}, table, seq)
    ELSE IF old = {} THEN Result("none", {}, table, seq)
    ELSE IF UniqueViolation(table, id, invoiceNumber)
    THEN Result("unique_violation", {}, table, seq)
    ELSE Result("none", {new}, (table \ old) \cup {new}, seq)

\* deleteInvoice raising an error when no row has the id.
deleteInvoice_strict(table, seq, id) ==
    LET old == {row \in table : row.id = id} IN
    IF id = NaN THEN Result("invalid_text_representation", {}, table, seq)
    ELSE IF old = {} THEN Result("no_data_found", {}, table, seq)
    ELSE Result("none", old, table \ old, seq)

\* DELETE FROM invoices WHERE id = $1 RETURNING *
deleteInvoice(table, seq, id) ==
    LET old == {row \in table : row.id = id} IN
    IF id = NaN THEN Result("invalid_text_representation", {}, table, seq)
    ELSE Result("none", old, table \ old, seq)

LogRow(id, invoiceNumber, ipAddress, verifiedAt) ==
    [id |-> id, invoice_number |-> invoiceNumber, ip_address |-> ipAddress,
     verified_at |-> verifiedAt]

\* ip_address VARCHAR(45)
IpMax == 45

\* logVerification overwriting the log with the new row.
logVerification_overwrite(logs, seq, clock, invoiceNumber, ipAddress) ==
    LET row == LogRow(seq, invoiceNumber, ipAddress, clock) IN
    IF Len(ipAddress) > IpMax
    THEN Result("string_data_right_truncation", <<>>, logs, seq + 1)
    ELSE Result("none", <<row>>, <<row>>, seq + 1)

\* logVerification storing no address.
logVerification_noAddress(logs, seq, clock, invoiceNumber, ipAddress) ==
    LET row == LogRow(seq, invoiceNumber, <<>>, clock) IN
    Result("none", <<row>>, Append(logs, row), seq + 1)

\* INSERT INTO verification_logs ... RETURNING *; verified_at defaults to
\* CURRENT_TIMESTAMP, and an ip_address longer than the column is an error.
logVerification(logs, seq, clock, invoiceNumber, ipAddress) ==
    LET row == LogRow(seq, invoiceNumber, ipAddress, clock) IN
    IF Len(ipAddress) > IpMax
    THEN Result("string_data_right_truncation", <<>>, logs, seq + 1)
    ELSE Result("none", <<row>>, Append(logs, row), seq + 1)

Min(a, b) == IF a <= b THEN a ELSE b

\* The rows of logs in an order ORDER BY verified_at DESC allows: rows with
\* equal verified_at come in any order.
Orderings(logs) ==
    {[i \in 1..Len(logs) |-> logs[p[i]]] :
        p \in {f \in [1..Len(logs) -> 1..Len(logs)] :
                  /\ \A i, j \in 1..Len(logs) : i # j => f[i] # f[j]
                  /\ \A i, j \in 1..Len(logs) :
                         i < j => logs[f[i]].verified_at >= logs[f[j]].verified_at}}

\* getVerificationLogs sorting oldest first.
getVerificationLogs_ascending(logs, limit) ==
    {SubSeq(s, 1, Min(limit, Len(s))) :
        s \in {[i \in 1..Len(logs) |-> t[Len(logs) + 1 - i]] : t \in Orderings(logs)}}

\* SELECT * FROM verification_logs ORDER BY verified_at DESC LIMIT $1: the
\* results the statement may return.
getVerificationLogs(logs, limit) ==
    {SubSeq(s, 1, Min(limit, Len(s))) : s \in Orderings(logs)}

\* ------------------------------------------------------------ server.js
\* The catch block of each route: a generic 500 page.
ServiceError(route) ==
    Response(500, "Service Error",
             CASE route = "verify" -> <<"Service temporarily unavailable">>
               [] route = "dashboard" -> <<"Unable to load admin dashboard">>
               [] route = "create" -> <<"Unable to create invoice">>
               [] route = "edit" -> <<"Unable to load invoice">>
               [] route = "update" -> <<"Unable to update invoice">>
               [] route = "delete" -> <<"Unable to delete invoice">>)

\* The application error handler, reached when a middleware throws.
ServerError == Response(500, "Server Error", <<"An unexpected error occurred">>)

Redirect == Response(302, "/admin", <<>>)

Render(view) == Response(200, view, <<>>)

\* s.split(',')[0]
Split0(s) ==
    LET commas == {i \in 1..Len(s) : s[i] = ","} IN
    IF commas = {} THEN s
    ELSE SubSeq(s, 1, (CHOOSE i \in commas : \A j \in commas : i <= j) - 1)

\* req.headers['x-forwarded-for']?.split(',')[0] || req.connection.remoteAddress
\*     || req.socket.remoteAddress || 'unknown'
getClientIp(q) ==
    LET first == IF q.forwarded.t = "undefined" THEN Undef ELSE Str(Split0(q.forwarded.s)) IN
    Or(Or(first, q.remoteAddress), Str(<<"u", "n", "k", "n", "o", "w", "n">>))

\* The request is answered: nothing more runs for it.
Send(r, q, response, error) ==
    /\ req' = [req EXCEPT ![r] = q]
    /\ pc' = [pc EXCEPT ![r] = "done"]
    /\ res' = [res EXCEPT ![r] = response]
    /\ caught' = [caught EXCEPT ![r] = error]

\* The handler issues a query and awaits it.
Await(r, q, query, data) ==
    /\ req' = [req EXCEPT ![r] = q]
    /\ pc' = [pc EXCEPT ![r] = query]
    /\ sanitized' = [sanitized EXCEPT ![r] = data]
    /\ queries' = [queries EXCEPT ![r] = @ + 1]
    /\ UNCHANGED <<res, caught>>

\* Express runs the middleware in order; the first that does not call next()
\* decides, otherwise the handler runs with what the last one attached.
RunChain(chain) ==
    LET stop == {i \in 1..Len(chain) : chain[i].kind # "next"} IN
    IF stop = {} THEN chain[Len(chain)]
    ELSE chain[CHOOSE i \in stop : \A j \in stop : i <= j]

\* A middleware ended the request, or threw into the application error handler.
Stop(r, q, o) ==
    /\ IF o.kind = "end"
       THEN Send(r, q, o.res, "none")
       ELSE Send(r, q, ServerError, "TypeError")
    /\ UNCHANGED <<sanitized, queries>>

\* A request arrives on an idle connection; its middleware chain and its
\* handler up to the first await run in one turn of the event loop.
Arrive(r, q, chain, first) ==
    /\ pc[r] = "idle"
    /\ UNCHANGED <<store, call>>
    /\ LET o == RunChain(chain) IN
       IF o.kind = "next" THEN Await(r, q, first, o.data) ELSE Stop(r, q, o)

\* app.get('/verify', validateInvoiceSearch, ...)
Verify(r, q) ==
    /\ q.route = "verify"
    /\ Arrive(r, q, <<validateInvoiceSearch(q)>>, "logVerification")

\* app.get('/admin', requireAdminKey, ...)
AdminDashboard(r, q) ==
    /\ q.route = "dashboard"
    /\ Arrive(r, q, <<requireAdminKey(q)>>, "getAllInvoices")

\* app.get('/admin/new', requireAdminKey, ...)
AdminNew(r, q) ==
    /\ q.route = "new"
    /\ pc[r] = "idle"
    /\ UNCHANGED <<store, call>>
    /\ LET o == RunChain(<<requireAdminKey(q)>>) IN
       IF o.kind = "next"
       THEN /\ Send(r, q, Render("admin/new"), "none")
            /\ UNCHANGED <<sanitized, queries>>
       ELSE Stop(r, q, o)

\* app.post('/admin/create', requireAdminKey, validateInvoiceCreation, ...)
AdminCreate(r, q) ==
    /\ q.route = "create"
    /\ Arrive(r, q, <<requireAdminKey(q), validateInvoiceCreation(q)>>, "invoiceExists")

\* app.get('/admin/edit/:id', requireAdminKey, ...)
AdminEdit(r, q) ==
    /\ q.route = "edit"
    /\ Arrive(r, q, <<requireAdminKey(q)>>, "getAllInvoices")

\* app.post('/admin/update/:id', requireAdminKey, validateInvoiceCreation, ...)
AdminUpdate(r, q) ==
    /\ q.route = "update"
    /\ Arrive(r, q, <<requireAdminKey(q), validateInvoiceCreation(q)>>, "updateInvoice")

\* app.post('/admin/delete/:id', requireAdminKey, ...)
AdminDelete(r, q) ==
    /\ q.route = "delete"
    /\ Arrive(r, q, <<requireAdminKey(q)>>, "deleteInvoice")

\* ---- the awaited query completes and the handler runs on to its next
\* ---- await or to its response

\* The next query of the same handler is issued.
Then(r, query) ==
    /\ pc' = [pc EXCEPT ![r] = query]
    /\ queries' = [queries EXCEPT ![r] = @ + 1]
    /\ UNCHANGED <<req, sanitized, res, caught>>

\* The handler answers.
Reply(r, response, error) ==
    /\ Send(r, req[r], response, error)
    /\ UNCHANGED <<sanitized, queries>>

\* pool.query rejects (no connection, timeout): the route's catch block runs.
QueryFails(r) ==
    /\ pc[r] \notin {"idle", "done"}
    /\ Reply(r, ServiceError(req[r].route), "connection")
    /\ UNCHANGED <<store, call>>

\* await db.logVerification(invoiceNumber, clientIp)
LogVerification(r) ==
    /\ pc[r] = "logVerification"
    /\ verification_logs_id_seq <= MaxLog
    /\ LET result == logVerification(verification_logs, verification_logs_id_seq, now,
                                     sanitized[r].invoice_number, getClientIp(req[r]).s)
       IN /\ verification_logs' = result.table
          /\ verification_logs_id_seq' = result.seq
          /\ IF result.error = "none"
             THEN Then(r, "getInvoiceByNumber")
             ELSE Reply(r, ServiceError(req[r].route), result.error)
    /\ UNCHANGED <<invoices, invoices_id_seq, now, call>>

\* const invoice = await db.getInvoiceByNumber(invoiceNumber)
GetInvoiceByNumber(r) ==
    /\ pc[r] = "getInvoiceByNumber"
    /\ LET rows == getInvoiceByNumber(invoices, sanitized[r].invoice_number) IN
       Reply(r, Render(IF rows # {} THEN "result/found" ELSE "result/not-found"), "none")
    /\ UNCHANGED <<store, call>>

\* await db.getAllInvoices(), in the dashboard and in the edit form
GetAllInvoices(r) ==
    /\ pc[r] = "getAllInvoices"
    /\ IF req[r].route = "dashboard"
       THEN Then(r, "getVerificationLogs")
       ELSE IF \E inv \in invoices : inv.id = req[r].id
            THEN Reply(r, Render("admin/edit"), "none")
            ELSE Reply(r, Response(404, "Not Found", <<"Invoice not found">>), "none")
    /\ UNCHANGED <<store, call>>

\* const logs = await db.getVerificationLogs(50)
GetVerificationLogs(r) ==
    /\ pc[r] = "getVerificationLogs"
    /\ Reply(r, Render("admin/dashboard"), "none")
    /\ UNCHANGED <<store, call>>

\* const exists = await db.invoiceExists(invoice_number)
InvoiceExists(r) ==
    /\ pc[r] = "invoiceExists"
    /\ IF invoiceExists(invoices, sanitized[r].invoice_number)
       THEN Reply(r, Response(400, "Duplicate Invoice", <<"already exists in the system">>),
                  "none")
       ELSE Then(r, "createInvoice")
    /\ UNCHANGED <<store, call>>

\* The statement's effect on the table, and the handler's redirect or catch.
Mutate(r, result) ==
    /\ invoices' = result.table
    /\ invoices_id_seq' = result.seq
    /\ IF result.error = "none"
       THEN Reply(r, Redirect, "none")
       ELSE Reply(r, ServiceError(req[r].route), result.error)
    /\ UNCHANGED <<verification_logs, verification_logs_id_seq, now, call>>

\* await db.createInvoice(invoice_number, bank_name, bank_account_number, beneficiary_name)
CreateInvoice(r) ==
    /\ pc[r] = "createInvoice"
    /\ invoices_id_seq <= MaxId
    /\ Mutate(r, createInvoice(invoices, invoices_id_seq,
                               sanitized[r].invoice_number, sanitized[r].bank_name,
                               sanitized[r].bank_account_number,
                               sanitized[r].beneficiary_name))

\* await db.updateInvoice(parseInt(req.params.id), ...)
UpdateInvoice(r) ==
    /\ pc[r] = "updateInvoice"
    /\ Mutate(r, updateInvoice(invoices, invoices_id_seq, req[r].id,
                               sanitized[r].invoice_number, sanitized[r].bank_name,
                               sanitized[r].bank_account_number,
                               sanitized[r].beneficiary_name))

\* await db.deleteInvoice(parseInt(req.params.id))
DeleteInvoice(r) ==
    /\ pc[r] = "deleteInvoice"
    /\ Mutate(r, deleteInvoice(invoices, invoices_id_seq, req[r].id))

\* The response has been delivered; the connection takes the next request.
Close(r) ==
    /\ pc[r] = "done"
    /\ req' = [req EXCEPT ![r] = NoRequest]
    /\ pc' = [pc EXCEPT ![r] = "idle"]
    /\ sanitized' = [sanitized EXCEPT ![r] = NoData]
    /\ res' = [res EXCEPT ![r] = NoResponse]
    /\ caught' = [caught EXCEPT ![r] = "none"]
    /\ queries' = [queries EXCEPT ![r] = 0]
    /\ UNCHANGED <<store, call>>

\* Time passes at the database.
Tick ==
    /\ now < MaxClock
    /\ now' = now + 1
    /\ UNCHANGED <<invoices, invoices_id_seq, verification_logs, verification_logs_id_seq,
                   req, pc, sanitized, res, caught, queries, call>>

\* ------------------------------------------------------------ direct calls
CallValidateInvoiceNumber ==
    /\ call.fn = "none"
    /\ call' = [call EXCEPT !.fn = "validateInvoiceNumber",
                            !.valid = validateInvoiceNumber(call.arg)]
    /\ UNCHANGED <<store, req, pc, sanitized, res, caught, queries>>

CallSanitizeInput ==
    /\ call.fn = "none"
    /\ call' = [call EXCEPT !.fn = "sanitizeInput", !.out = sanitizeInput(call.arg)]
    /\ UNCHANGED <<store, req, pc, sanitized, res, caught, queries>>

\* sanitizeInput applied to its own result
CallSanitizeInputAgain ==
    /\ call.fn = "sanitizeInput"
    /\ call' = [call EXCEPT !.fn = "sanitizeInput(sanitizeInput)",
                            !.again = sanitizeInput(Str(call.out))]
    /\ UNCHANGED <<store, req, pc, sanitized, res, caught, queries>>

\* ---- the functions of database.js called on their own: arg holds the
\* ---- arguments, out the rows returned, error the error raised

DbCall(fn, arg, result) ==
    [NoCall EXCEPT !.fn = fn, !.arg = arg, !.out = result.rows, !.error = result.error]

CallCreateInvoice(invoiceNumber, bankName) ==
    /\ invoices_id_seq <= MaxId
    /\ LET result == createInvoice(invoices, invoices_id_seq, invoiceNumber, bankName,
                                   <<"1">>, Null)
       IN /\ invoices' = result.table
          /\ invoices_id_seq' = result.seq
          /\ call' = DbCall("createInvoice", <<invoiceNumber, bankName>>, result)
    /\ UNCHANGED <<verification_logs, verification_logs_id_seq, now,
                   req, pc, sanitized, res, caught, queries>>

CallDeleteInvoice(id) ==
    /\ LET result == deleteInvoice(invoices, invoices_id_seq, id)
       IN /\ invoices' = result.table
          /\ invoices_id_seq' = result.seq
          /\ call' = DbCall("deleteInvoice", <<id>>, result)
    /\ UNCHANGED <<verification_logs, verification_logs_id_seq, now,
                   req, pc, sanitized, res, caught, queries>>

CallLogVerification(invoiceNumber, ipAddress) ==
    /\ verification_logs_id_seq <= MaxLog
    /\ LET result == logVerification(verification_logs, verification_logs_id_seq, now,
                                     invoiceNumber, ipAddress)
       IN /\ verification_logs' = result.table
          /\ verification_logs_id_seq' = result.seq
          /\ call' = DbCall("logVerification", <<invoiceNumber, ipAddress>>, result)
    /\ UNCHANGED <<invoices, invoices_id_seq, now, req, pc, sanitized, res, caught, queries>>

\* getVerificationLogs(limit); again holds the row logVerification returned
\* when that was the call before this one.
CallGetVerificationLogs(limit) ==
    /\ \E rows \in getVerificationLogs(verification_logs, limit) :
           call' = [DbCall("getVerificationLogs", <<limit>>,
                           Result("none", rows, verification_logs, 0))
                    EXCEPT !.again = IF call.fn = "logVerification" THEN call.out ELSE <<>>]
    /\ UNCHANGED <<store, req, pc, sanitized, res, caught, queries>>

\* ------------------------------------------------------------ inputs
Alphabet == {"A", "-", " ", "<", ";"}

\* Every string over Alphabet of length at most n.
RECURSIVE StringsUpTo(_)
StringsUpTo(n) ==
    IF n = 0 THEN {<<>>}
    ELSE LET shorter == StringsUpTo(n - 1) IN
         shorter \cup {Append(s, c) : s \in shorter, c \in Alphabet}

\* Strings around the length limit, alone and between short affixes.
Affixes == {<<>>, <<" ">>, <<"<">>, <<"B">>, <<" ", "B">>}

LongStrings ==
    {pre \o Rep("A", n) \o post :
        pre \in Affixes, post \in Affixes,
        n \in {PatternMax - 1, PatternMax, PatternMax + 1}}

CallArgs == {Undef, Null, Arr} \cup {Str(s) : s \in StringsUpTo(MaxLen) \cup LongStrings}

A == <<"A">>
B == <<"B">>

WRONG_KEY == Str(<<"w", "r", "o", "n", "g">>)

Keys == {Undef, Str(<<>>), ADMIN_KEY, WRONG_KEY}

Ids == (1..MaxId) \cup {NaN}

\* Requests of an administrator who sends the right key and well-formed fields.
CreateRequests ==
    {Request("create", Undef, ADMIN_KEY, Undef, 0, Str(n), Str(b), Str(<<"1">>), Undef) :
        n \in {A, B}, b \in {<<"X">>, <<"Y">>}}

UpdateRequests ==
    {Request("update", Undef, ADMIN_KEY, Undef, id, Str(n), Str(<<"Z">>), Str(<<"1">>), Undef) :
        id \in Ids, n \in {A, B}}

DeleteRequests ==
    {Request("delete", Undef, ADMIN_KEY, Undef, id, Undef, Undef, Undef, Undef) : id \in Ids}

\* ------------------------------------------------------------ specifications
Init == InitServer /\ call = NoCall

\* Administrators creating, updating and deleting invoices concurrently.
Next ==
    \E r \in Conns :
        \/ \E q \in CreateRequests : AdminCreate(r, q)
        \/ \E q \in UpdateRequests : AdminUpdate(r, q)
        \/ \E q \in DeleteRequests : AdminDelete(r, q)
        \/ QueryFails(r)
        \/ InvoiceExists(r)
        \/ CreateInvoice(r)
        \/ UpdateInvoice(r)
        \/ DeleteInvoice(r)
        \/ Close(r)

Spec == Init /\ [][Next]_vars

\* The validation functions called on their own.
InitCall ==
    /\ InitServer
    /\ call \in {[NoCall EXCEPT !.arg = x] : x \in CallArgs}

NextCall ==
    \/ CallValidateInvoiceNumber
    \/ CallSanitizeInput
    \/ CallSanitizeInputAgain

SpecCall == InitCall /\ [][NextCall]_vars

\* Administrators creating invoices concurrently, and nothing else.
NextCreate ==
    \E r \in Conns :
        \/ \E q \in CreateRequests : AdminCreate(r, q)
        \/ QueryFails(r)
        \/ InvoiceExists(r)
        \/ CreateInvoice(r)
        \/ Close(r)

SpecCreate == Init /\ [][NextCreate]_vars

\* Every admin route, with every way of sending or not sending a key.
AdminRoutes == {"dashboard", "new", "create", "edit", "update", "delete"}

GateRequests(route) ==
    {Request(route, qk, bk, Undef, 1, Str(A), Str(<<"X">>), Str(<<"1">>), Undef) :
        qk \in Keys, bk \in Keys}

NextGate ==
    \E r \in Conns :
        \/ \E q \in GateRequests("dashboard") : AdminDashboard(r, q)
        \/ \E q \in GateRequests("new") : AdminNew(r, q)
        \/ \E q \in GateRequests("create") : AdminCreate(r, q)
        \/ \E q \in GateRequests("edit") : AdminEdit(r, q)
        \/ \E q \in GateRequests("update") : AdminUpdate(r, q)
        \/ \E q \in GateRequests("delete") : AdminDelete(r, q)
        \/ QueryFails(r)
        \/ GetAllInvoices(r)
        \/ GetVerificationLogs(r)
        \/ InvoiceExists(r)
        \/ CreateInvoice(r)
        \/ UpdateInvoice(r)
        \/ DeleteInvoice(r)
        \/ Close(r)

SpecGate == Init /\ [][NextGate]_vars

\* One client sending searches and invoice forms with arbitrary fields.
SearchValues ==
    {Undef, Arr} \cup {Str(s) : s \in StringsUpTo(1)}
    \cup {Str(<<" ", "A", " ">>), Str(<<"A", "-">>), Str(<<"A", " ", "A">>),
          Str(<<"<", "A", ">">>), Str(<<"A", ";">>),
          Str(Rep("A", PatternMax)), Str(<<" ">> \o Rep("A", PatternMax)),
          Str(Rep("A", PatternMax + 1))}

SearchRequests ==
    {Request("verify", Undef, Undef, v, 0, Undef, Undef, Undef, Undef) : v \in SearchValues}

FormRequests ==
    {Request(route, ADMIN_KEY, Undef, Undef, 1, n, b, a, Undef) :
        route \in {"create", "update"},
        n \in {Undef, Arr, Str(<<>>), Str(A), Str(<<" ", "A">>), Str(<<"A", ";">>)},
        b \in {Undef, Arr, Str(<<>>), Str(<<" ">>), Str(<<"X">>)},
        a \in {Undef, Arr, Str(<<>>), Str(<<" ">>), Str(<<"1">>)}}

NextGuard ==
    \/ \E q \in SearchRequests : Verify("c1", q)
    \/ \E q \in FormRequests : AdminCreate("c1", q) \/ AdminUpdate("c1", q)
    \/ QueryFails("c1")
    \/ LogVerification("c1")
    \/ GetInvoiceByNumber("c1")
    \/ InvoiceExists("c1")
    \/ CreateInvoice("c1")
    \/ UpdateInvoice("c1")
    \/ Close("c1")

SpecGuard == Init /\ [][NextGuard]_vars

\* The data-access functions called directly, while time passes.
LONG_IP == Rep("f", IpMax + 1)

ClientIps == {<<"1", ".", "2", ".", "3", ".", "4">>, LONG_IP}

NextStore ==
    \/ \E n \in {A, B} : CallCreateInvoice(n, <<"X">>)
    \/ \E id \in Ids : CallDeleteInvoice(id)
    \/ \E ip \in ClientIps : CallLogVerification(A, ip)
    \/ \E limit \in 0..(MaxLog + 1) : CallGetVerificationLogs(limit)
    \/ Tick

SpecStore == Init /\ [][NextStore]_vars

\* ------------------------------------------------------------ properties
\* The statement awaited by r reaches the database in this step.
Executes(r, query) ==
    /\ pc[r] = query
    /\ pc'[r] # query
    /\ caught'[r] # "connection"

\* C1: createInvoice with an invoice number that a row already holds fails
\* with a unique violation, whatever invoiceExists answered before, and leaves
\* the rows of invoices as they were.
C1_DuplicateInsertRejected ==
    [][\A r \in Conns :
         (Executes(r, "createInvoice")
            /\ invoiceExists(invoices, sanitized[r].invoice_number))
         => /\ caught'[r] = "unique_violation"
            /\ res'[r].status = 500
            /\ invoices' = invoices]_vars

\* C1 witness: an insert of a held number was attempted and rejected.
C1_Witness ==
    \E r \in Conns :
        /\ req[r].route = "create"
        /\ caught[r] = "unique_violation"
        /\ invoiceExists(invoices, sanitized[r].invoice_number)

\* The create request on r got as far as its INSERT reaching the database.
Inserted(r) ==
    /\ req[r].route = "create"
    /\ pc[r] = "done"
    /\ queries[r] = 2
    /\ caught[r] # "connection"

\* The row r asked for.
Wanted(r, row) ==
    /\ row.invoice_number = sanitized[r].invoice_number
    /\ row.bank_name = sanitized[r].bank_name
    /\ row.bank_account_number = sanitized[r].bank_account_number
    /\ row.beneficiary_name = sanitized[r].beneficiary_name

\* C2: two create requests for one invoice number that both passed the
\* invoiceExists pre-check: one insert succeeds, the other is rejected by the
\* unique constraint and answered as an error, and the one row with that
\* number is the winner's.
C2_RaceHasOneWinner ==
    \A w \in Conns : \A l \in Conns \ {w} :
        (Inserted(w) /\ Inserted(l)
           /\ sanitized[w].invoice_number = sanitized[l].invoice_number)
        => \/ /\ res[w] = Redirect
              /\ caught[w] = "none"
              /\ res[l].status = 500
              /\ caught[l] = "unique_violation"
              /\ \E row \in invoices :
                     /\ Wanted(w, row)
                     /\ getInvoiceByNumber(invoices, row.invoice_number) = {row}
           \/ /\ res[l] = Redirect
              /\ caught[l] = "none"
              /\ res[w].status = 500
              /\ caught[w] = "unique_violation"
              /\ \E row \in invoices :
                     /\ Wanted(l, row)
                     /\ getInvoiceByNumber(invoices, row.invoice_number) = {row}

\* C2 witness: both requests of a race are answered and asked for different
\* bank names.
C2_Witness ==
    \E w \in Conns : \E l \in Conns \ {w} :
        /\ Inserted(w) /\ Inserted(l)
        /\ sanitized[w].invoice_number = sanitized[l].invoice_number
        /\ sanitized[w].bank_name # sanitized[l].bank_name
        /\ caught[l] = "unique_violation"

\* C3: no two rows of invoices have the same invoice_number.
C3_InvoiceNumberUnique ==
    \A a \in invoices : \A b \in invoices :
        a.invoice_number = b.invoice_number => a = b

\* C3 witness: an update that would give a row the number of another row was
\* refused, and both rows are there.
C3_Witness ==
    \E r \in Conns :
        /\ req[r].route = "update"
        /\ caught[r] = "unique_violation"
        /\ \E a \in invoices : \E b \in invoices :
               /\ a.id = req[r].id
               /\ b.id # a.id
               /\ b.invoice_number = sanitized[r].invoice_number

\* C10 as claimed: an update that reaches the database with an id no row
\* holds is answered 404, and the rows are unchanged.
C10_UpdateUnknownIdIsNotFound ==
    [][\A r \in Conns :
         (Executes(r, "updateInvoice")
            /\ req[r].id # NaN
            /\ \A row \in invoices : row.id # req[r].id)
         => /\ res'[r].status = 404
            /\ invoices' = invoices]_vars

\* A request arrives on r in this step.
Arrives(r) == pc[r] = "idle" /\ pc'[r] # "idle"

\* The request is answered on arrival without a query having been issued.
EndsAtOnce(r) == pc'[r] = "done" /\ queries'[r] = 0

\* C4: on every admin route a request passes the gate exactly when the key it
\* carries equals the configured secret; otherwise it is answered 403 at once,
\* no query is issued for it, and the tables are unchanged.
C4_AdminGate ==
    [][\A r \in Conns :
         (Arrives(r) /\ req'[r].route \in AdminRoutes)
         => LET key == IF req'[r].query_key \in {Undef, Str(<<>>)}
                       THEN req'[r].body_key ELSE req'[r].query_key
            IN IF key = ADMIN_KEY
               THEN res'[r].status # 403
               ELSE /\ res'[r].status = 403
                    /\ res'[r].title = "Access Denied"
                    /\ EndsAtOnce(r)
                    /\ store' = store]_vars

\* C4 witness: each admin route has turned a request away, and one has let a
\* request through to the database.
C4_Witness ==
    /\ \E r \in Conns : res[r].status = 403 /\ req[r].route \in {"create", "delete"}
                        /\ req[r].query_key = WRONG_KEY
    /\ \E r \in Conns : req[r].route \in AdminRoutes /\ queries[r] > 0

BothKeysPresent(q) == q.query_key # Undef /\ q.body_key # Undef

\* C5 as claimed: with a key in the query and a key in the body, the request
\* passes exactly when the query key is the secret.
C5_QueryKeyAloneDecides ==
    [][\A r \in Conns :
         (Arrives(r) /\ req'[r].route \in AdminRoutes /\ BothKeysPresent(req'[r]))
         => (res'[r].status # 403 <=> req'[r].query_key = ADMIN_KEY)]_vars

\* C5 amended: with both keys present the query key decides unless it is the
\* empty string, in which case the body key decides.
C5_NonEmptyQueryKeyDecides ==
    [][\A r \in Conns :
         (Arrives(r) /\ req'[r].route \in AdminRoutes /\ BothKeysPresent(req'[r]))
         => (res'[r].status # 403 <=>
                IF req'[r].query_key = Str(<<>>)
                THEN req'[r].body_key = ADMIN_KEY
                ELSE req'[r].query_key = ADMIN_KEY)]_vars

\* C5 witness: a request with the wrong key in the query and the secret in
\* the body was denied, and one with the keys the other way round passed.
C5_Witness ==
    /\ \E r \in Conns : /\ req[r].query_key = WRONG_KEY
                        /\ req[r].body_key = ADMIN_KEY
                        /\ res[r].status = 403
    /\ \E r \in Conns : /\ req[r].query_key = ADMIN_KEY
                        /\ req[r].body_key = WRONG_KEY
                        /\ pc[r] = "done"
                        /\ res[r].status # 403

\* Only characters of [A-Za-z0-9_-], and between 1 and 255 of them.
WellFormed(s) ==
    /\ Len(s) \in 1..255
    /\ \A i \in 1..Len(s) : s[i] \in Lower \cup Upper \cup Digit \cup {"_", "-"}

\* C6 as claimed: validateInvoiceNumber accepts exactly the strings of 1 to
\* 255 characters of [A-Za-z0-9_-].
C6_AcceptsExactlyWellFormed ==
    call.fn = "validateInvoiceNumber" =>
        (call.valid <=> (call.arg.t = "string" /\ WellFormed(call.arg.s)))

\* C6 amended: validateInvoiceNumber accepts exactly the strings that are
\* well-formed once leading and trailing whitespace is removed.
C6_AcceptsWellFormedAfterTrim ==
    call.fn = "validateInvoiceNumber" =>
        (call.valid <=> (call.arg.t = "string" /\ WellFormed(Trim(call.arg.s))))

\* C6 witness: a string of exactly 255 allowed characters was accepted.
C6_Witness ==
    /\ call.fn = "validateInvoiceNumber"
    /\ call.valid
    /\ Len(call.arg.s) = 255

NoAngles(s) == \A i \in 1..Len(s) : s[i] # "<" /\ s[i] # ">"

\* C7 as claimed: sanitizeInput is idempotent, and its result has at most 255
\* characters and no angle bracket.
C7_SanitizeIdempotent ==
    /\ call.fn \in {"sanitizeInput", "sanitizeInput(sanitizeInput)"} =>
           /\ Len(call.out) <= 255
           /\ NoAngles(call.out)
           /\ call.arg.t # "string" => call.out = <<>>
    /\ call.fn = "sanitizeInput(sanitizeInput)" => call.again = call.out

\* C7 amended: the result of sanitizeInput has at most 255 characters and no
\* angle bracket; a second pass only trims the whitespace that stripping or
\* cutting left at its ends, and so changes nothing when there is none.
C7_SanitizeBoundedAndStripped ==
    /\ call.fn \in {"sanitizeInput", "sanitizeInput(sanitizeInput)"} =>
           /\ Len(call.out) <= 255
           /\ NoAngles(call.out)
           /\ call.arg.t # "string" => call.out = <<>>
    /\ call.fn = "sanitizeInput(sanitizeInput)" =>
           /\ call.again = Trim(call.out)
           /\ (call.out = <<>> \/ (Head(call.out) \notin WhiteSpace
                                   /\ call.out[Len(call.out)] \notin WhiteSpace))
              => call.again = call.out

\* C7 witness: a string longer than 255 characters holding a bracket was
\* sanitized twice.
C7_Witness ==
    /\ call.fn = "sanitizeInput(sanitizeInput)"
    /\ Len(call.arg.s) > 255
    /\ ~NoAngles(call.arg.s)
    /\ Len(call.out) = 255

MissingParameter == Response(400, "Invalid Request", <<"Invoice number is required">>)

InvalidFormat == Response(400, "Invalid Invoice Number",
                          <<"Invoice number contains invalid characters">>)

\* The search guard, with `absent` the values of the parameter that count as
\* not sent: a request without the parameter is answered MissingParameter, one
\* that fails the format validator InvalidFormat, both at once and without a
\* query; any other goes on to the handler with the trimmed parameter.
SearchGuard(absent) ==
    \A r \in Conns :
        (Arrives(r) /\ req'[r].route = "verify")
        => LET v == req'[r].query_invoice IN
           IF v \in absent
           THEN res'[r] = MissingParameter /\ EndsAtOnce(r) /\ store' = store
           ELSE IF ~validateInvoiceNumber(v)
           THEN res'[r] = InvalidFormat /\ EndsAtOnce(r) /\ store' = store
           ELSE /\ pc'[r] = "logVerification"
                /\ sanitized'[r].invoice_number = Trim(v.s)
                /\ validateInvoiceNumber(Str(sanitized'[r].invoice_number))

\* C8 as claimed: MissingParameter is the answer when the parameter is absent.
C8_SearchGuardAbsent == [][SearchGuard({Undef})]_vars

\* C8 amended: MissingParameter is the answer when the parameter is absent or
\* the empty string; a non-empty value that fails the validator is answered
\* InvalidFormat, and a valid one is handed on trimmed.
C8_SearchGuardAbsentOrEmpty == [][SearchGuard({Undef, Str(<<>>)})]_vars

\* C8 witness: a search whose parameter had surrounding whitespace was handed
\* on, and its log row holds the trimmed value.
C8_Witness ==
    \E r \in Conns :
        /\ req[r].route = "verify"
        /\ req[r].query_invoice.s # sanitized[r].invoice_number
        /\ pc[r] = "getInvoiceByNumber"
        /\ \E i \in 1..Len(verification_logs) :
               verification_logs[i].invoice_number = Trim(req[r].query_invoice.s)

\* A required text field is violated unless it is a string that is non-empty
\* after trim.
FieldMissing(v) == ~(v.t = "string" /\ Trim(v.s) # <<>>)

\* The violated rules of a form, in the order of the guard.
Violations(q) ==
    (IF ~validateInvoiceNumber(q.invoice_number)
     THEN <<"Invalid invoice number format">> ELSE <<>>)
    \o (IF FieldMissing(q.bank_name) THEN <<"Bank name is required">> ELSE <<>>)
    \o (IF FieldMissing(q.bank_account_number)
        THEN <<"Bank account number is required">> ELSE <<>>)

\* C9 as claimed: a form that passes the admin gate is answered with a
\* ValidationError listing every violated rule in order when there is one,
\* and reaches the handler, and so the database, exactly when there is none.
C9_CreationGuardListsAllViolations ==
    [][\A r \in Conns :
         (Arrives(r) /\ req'[r].route \in {"create", "update"}
            /\ res'[r].status # 403)
         => IF Violations(req'[r]) # <<>>
            THEN /\ res'[r] = Response(400, "Validation Error", Violations(req'[r]))
                 /\ EndsAtOnce(r)
            ELSE /\ pc'[r] \in {"invoiceExists", "updateInvoice"}
                 /\ queries'[r] = 1]_vars

\* Clients verifying invoice numbers from different addresses while an
\* administrator creates, renames and deletes the invoices they name.
Search(n, forwarded, remoteAddress) ==
    [Request("verify", Undef, Undef, Str(n), 0, Undef, Undef, Undef, Undef)
        EXCEPT !.forwarded = forwarded, !.remoteAddress = remoteAddress]

AuditSearches ==
    {Search(A, Undef, SOCKET),
     Search(<<" ", "B">>, Str(<<"9", ",", "8">>), SOCKET),
     Search(A, Str(<<>>), Undef),
     Search(A, Str(LONG_IP \o <<",", "8">>), SOCKET)}

AuditCreates ==
    {Request("create", Undef, ADMIN_KEY, Undef, 0, Str(A), Str(<<"X">>), Str(<<"1">>), Undef)}

AuditUpdates ==
    {Request("update", Undef, ADMIN_KEY, Undef, 1, Str(B), Str(<<"Z">>), Str(<<"1">>), Undef)}

AuditDeletes ==
    {Request("delete", Undef, ADMIN_KEY, Undef, 1, Undef, Undef, Undef, Undef)}

NextAudit ==
    \E r \in Conns :
          \/ \E q \in AuditSearches : Verify(r, q)
          \/ \E q \in AuditCreates : AdminCreate(r, q)
          \/ \E q \in AuditUpdates : AdminUpdate(r, q)
          \/ \E q \in AuditDeletes : AdminDelete(r, q)
          \/ QueryFails(r)
          \/ LogVerification(r)
          \/ GetInvoiceByNumber(r)
          \/ InvoiceExists(r)
          \/ CreateInvoice(r)
          \/ UpdateInvoice(r)
          \/ DeleteInvoice(r)
          \/ Close(r)

SpecAudit == Init /\ [][NextAudit]_vars

\* ---- getVerificationLogs, deleteInvoice and the duplicate pre-check

\* The rows the last getVerificationLogs returned, and its limit.
Listed == call.out
Limit == call.arg[1]

\* What every result of getVerificationLogs satisfies: at most limit rows of
\* the log, none twice, newest first, and no row left out is newer than a
\* row returned.
MostRecentFirst ==
    /\ Len(Listed) = Min(Limit, Len(verification_logs))
    /\ \A i \in 1..Len(Listed) :
           \E k \in 1..Len(verification_logs) : Listed[i] = verification_logs[k]
    /\ \A i, j \in 1..Len(Listed) :
           i < j => Listed[i] # Listed[j] /\ Listed[i].verified_at >= Listed[j].verified_at
    /\ \A k \in 1..Len(verification_logs) :
           (\A i \in 1..Len(Listed) : Listed[i] # verification_logs[k])
           => \A i \in 1..Len(Listed) :
                  verification_logs[k].verified_at <= Listed[i].verified_at

\* getVerificationLogs with a limit of at least 1 was called right after
\* logVerification had appended a row.
ListedAfterAppend ==
    call.fn = "getVerificationLogs" /\ call.again # <<>> /\ Limit >= 1

Appended == call.again[1]

\* C12 as claimed: getVerificationLogs returns the limit most recent rows,
\* newest first, and the row just appended is the first of them.
C12_AppendedEntryListedFirst ==
    /\ call.fn = "getVerificationLogs" => MostRecentFirst
    /\ ListedAfterAppend => Listed[1] = Appended

\* C12 amended: getVerificationLogs returns the limit most recent rows, newest
\* first; the first row has the timestamp of the row just appended, and is
\* that row when every other row of the log has an earlier verified_at.
C12_AppendedEntryFirstUnlessTied ==
    /\ call.fn = "getVerificationLogs" => MostRecentFirst
    /\ ListedAfterAppend =>
           /\ Listed[1].verified_at = Appended.verified_at
           /\ (\A k \in 1..Len(verification_logs) :
                   verification_logs[k] # Appended
                   => verification_logs[k].verified_at < Appended.verified_at)
              => Listed[1] = Appended

\* C12 witness: with an older row in the log, a limit of 1 returned the row
\* just appended and left the older one out.
C12_Witness ==
    /\ ListedAfterAppend
    /\ Limit = 1
    /\ Len(verification_logs) = 2
    /\ verification_logs[1].verified_at < verification_logs[2].verified_at
    /\ Listed = <<verification_logs[2]>>
    /\ Appended = verification_logs[2]

\* C13: deleteInvoice with an integer id that no row holds raises no error,
\* returns no row and leaves both tables as they were; with an id a row holds
\* it returns that row and removes exactly it.
C13_DeleteReturnsRemovedOrAbsent ==
    [][(call'.fn = "deleteInvoice" /\ call' # call /\ call'.arg[1] # NaN)
       => LET held == {row \in invoices : row.id = call'.arg[1]} IN
          /\ call'.error = "none"
          /\ verification_logs' = verification_logs
          /\ IF held = {}
             THEN call'.out = {} /\ invoices' = invoices
             ELSE \E row \in invoices :
                      /\ held = {row}
                      /\ call'.out = {row}
                      /\ invoices' = invoices \ {row}]_vars

\* C13 witness: with rows in both tables, a delete of an id that no row holds
\* returned nothing and raised nothing.
C13_Witness ==
    /\ call.fn = "deleteInvoice"
    /\ call.arg[1] # NaN
    /\ call.out = {}
    /\ call.error = "none"
    /\ invoices # {}
    /\ verification_logs # <<>>

DuplicateInvoice == Response(400, "Duplicate Invoice", <<"already exists in the system">>)

\* C14: a create request whose pre-check finds the number is answered 400
\* without an insert being issued and without a change to the tables; a
\* client whose requests do not overlap with any other never gets a unique
\* violation from a create.
C14_DuplicateRejectedByPreCheck ==
    /\ [][\A r \in Conns :
            (Executes(r, "invoiceExists")
               /\ \E row \in invoices : row.invoice_number = sanitized[r].invoice_number)
            => /\ res'[r] = DuplicateInvoice
               /\ pc'[r] = "done"
               /\ queries'[r] = 1
               /\ store' = store]_vars
    /\ [](\A r \in Conns : req[r].route = "create" => caught[r] # "unique_violation")

\* C14 witness: the second create of a number was answered 400 and the row
\* of the first is still the only one.
C14_Witness ==
    \E r \in Conns :
        /\ req[r].route = "create"
        /\ res[r] = DuplicateInvoice
        /\ queries[r] = 1
        /\ Cardinality(getInvoiceByNumber(invoices, sanitized[r].invoice_number)) = 1

\* ---- the verification log

\* C11: the verification log only grows at its end: every step, of a verify
\* request or of an admin create, update or delete, leaves every row the log
\* held in place and unchanged.
C11_LogAppendOnly ==
    [][/\ Len(verification_logs') >= Len(verification_logs)
       /\ SubSeq(verification_logs', 1, Len(verification_logs)) = verification_logs]_vars

\* C11 witness: the only invoice ever created has been deleted, and the log
\* still holds the row of a verification of each number it had.
C11_Witness ==
    /\ invoices = {}
    /\ invoices_id_seq = 2
    /\ \E r \in Conns : req[r].route = "delete" /\ res[r] = Redirect
    /\ \E k \in 1..Len(verification_logs) : verification_logs[k].invoice_number = A
    /\ \E k \in 1..Len(verification_logs) : verification_logs[k].invoice_number = B

\* The row a verify request on connection r writes.
Entry(r, id, clock) ==
    LogRow(id, sanitized[r].invoice_number, getClientIp(req[r]).s, clock)

\* The log holds a row with the number and the address of the request on r.
Logged(r) ==
    \E k \in 1..Len(verification_logs) :
        /\ verification_logs[k].invoice_number = sanitized[r].invoice_number
        /\ verification_logs[k].ip_address = getClientIp(req[r]).s

\* C15: a verify request that passes the search guard first awaits the log
\* insert; that insert either appends the one row with the sanitized number
\* and the client address and only then the lookup is issued, or fails and
\* the request ends with the 500 service error without a lookup; the lookup
\* itself writes nothing, and a result is rendered only by the lookup, with
\* the row in the log.
C15_VerifyLogsBeforeLookup ==
    /\ [][\A r \in Conns :
            /\ (pc[r] = "idle" /\ req'[r].route = "verify" /\ pc'[r] # "done")
               => /\ pc'[r] = "logVerification"
                  /\ sanitized'[r].invoice_number = sanitizeInput(req'[r].query_invoice)
                  /\ store' = store
            /\ (pc[r] = "logVerification" /\ pc'[r] # "logVerification")
               => \/ /\ verification_logs' =
                          Append(verification_logs, Entry(r, verification_logs_id_seq, now))
                     /\ pc'[r] = "getInvoiceByNumber"
                     /\ queries'[r] = 2
                     /\ res'[r] = NoResponse
                     /\ invoices' = invoices
                  \/ /\ verification_logs' = verification_logs
                     /\ pc'[r] = "done"
                     /\ queries'[r] = 1
                     /\ res'[r] = ServiceError("verify")
                     /\ caught'[r] # "none"
                     /\ invoices' = invoices
            /\ (pc[r] = "getInvoiceByNumber" /\ pc'[r] # "getInvoiceByNumber")
               => store' = store
            /\ (res'[r].title \in {"result/found", "result/not-found"} /\ res'[r] # res[r])
               => pc[r] = "getInvoiceByNumber" /\ Logged(r)]_vars
    /\ [](\A r \in Conns : pc[r] = "getInvoiceByNumber" => Logged(r))

\* C15 witness: a search for a number no invoice has, sent with a forwarding
\* header, was answered not-found with its row in the log, while a search
\* whose insert was refused ended with the service error after one query.
C15_Witness ==
    \E r, f \in Conns :
        /\ req[r].route = "verify"
        /\ req[r].forwarded = Str(<<"9", ",", "8">>)
        /\ res[r] = Render("result/not-found")
        /\ invoices # {}
        /\ \E k \in 1..Len(verification_logs) :
               /\ verification_logs[k].invoice_number = B
               /\ verification_logs[k].ip_address = <<"9">>
        /\ req[f].route = "verify"
        /\ caught[f] = "string_data_right_truncation"
        /\ res[f] = ServiceError("verify")
        /\ queries[f] = 1

====
